---- MODULE Spec2Model ----
(***************************************************************************)
(* Range minimum query by Sparse Table (RMQ.hpp), lowest common ancestor   *)
(* by Euler tour + RMQ (lca.hpp) and representative elements               *)
(* (algorithms.hpp).                                                       *)
(*                                                                         *)
(* Containers are 0-based functions, as in the source: an array of n       *)
(* elements is a function with domain 0..n-1.  An iterator into an array   *)
(* is the position it points at.  The two-dimensional index table M is a   *)
(* function on the pairs <<j, i>> that the builder has written.            *)
(***************************************************************************)
EXTENDS Integers, Sequences, FiniteSets, TLC

\* ---------------------------------------------------------------- bounds
MaxN == 9       \* longest input array
MaxVal == 2     \* array elements are drawn from 0..MaxVal-1
MaxV == 5       \* most vertices of a tree
MaxOverrun == 2 \* how far an iterator that skipped `last` is followed
WordBits == 16  \* width of the unsigned index types

VARIABLES
    A,          \* the input array of the sparse-table functions
    M,          \* 2d index table (index_preprocess_sparse_table)
    T,          \* flat iterator table (preprocess_sparse_table)
    builtM,     \* index_preprocess_sparse_table has run on (A, M)
    builtT,     \* preprocess_sparse_table has run on (A, T)
    q,          \* one queried range and what each query function returned
    g,          \* the rooted tree given to lca_preprocess
    E,          \* Euler tour of g
    L,          \* depth of each tour entry
    R,          \* representative (first) tour position of each vertex
    LM,         \* sparse table of L (the parameter M of lca_preprocess)
    preprocessed, \* lca_preprocess has run on g
    lq,         \* one queried pair of vertices and what lca_query returned
    rep         \* the running call of representative_element on A

vars == <<A, M, T, builtM, builtT, q, g, E, L, R, LM, preprocessed, lq, rep>>
rmqVars == <<A, M, T, builtM, builtT, q>>
lcaVars == <<g, E, L, R, LM, preprocessed, lq>>

\* ------------------------------------------------------- program outcomes
\* A call returns a position/vertex (>= 0) or does not return at all.
AssertFail == -2    \* assert() failed: abort()
Crash == -1         \* the process died on a stray memory access

Size(C) == Cardinality(DOMAIN C)
Empty == <<>>
push_back(C, v) == [k \in 0..Size(C) |-> IF k < Size(C) THEN C[k] ELSE v]

Values == 0..(MaxVal - 1)
Arrays == UNION {[0..(n - 1) -> Values] : n \in 0..MaxN}

\* ---------------------------------------------------------------- helpers
RECURSIVE lower_log2(_)
lower_log2(n) == IF n <= 1 THEN 0 ELSE 1 + lower_log2(n \div 2)

pow2(j) == 2 ^ j

\* The leftmost position of the minimum of A[i..j] (the reference answer).
LeftmostMin(arr, i, j) ==
    CHOOSE k \in i..j :
        /\ \A m \in i..j : arr[k] <= arr[m]
        /\ \A m \in i..(k - 1) : arr[m] > arr[k]

\* ------------------------------------------ index_preprocess_sparse_table
\* M[1][i] = A[i] <= A[i + 1] ? i : i + 1
IndexLevel1Pick(arr, i) == IF arr[i] <= arr[i + 1] THEN i ELSE i + 1

\* for(size_type i = 0; i < A.size() - 1; i++) M[j][i] = ...   (j = 1)
IndexLevel1(arr, M0) ==
    [p \in {<<1, i>> : i \in 0..(Size(arr) - 2)} |-> IndexLevel1Pick(arr, p[2])] @@ M0

\* IndexLevelPick with <= for <: the right half wins a tie (a faulty variant)
IndexLevelPick_RightWinsTie(arr, M1, M2) == IF arr[M2] <= arr[M1] THEN M2 ELSE M1

\* M[j][i] = A[M2] < A[M1] ? M2 : M1
IndexLevelPick(arr, M1, M2) == IF arr[M2] < arr[M1] THEN M2 ELSE M1

\* for(std::size_t i = 0; i != last_pos; i++) { ... }  run from i on
RECURSIVE IndexInner(_, _, _, _, _, _)
IndexInner(arr, M0, j, i, last_pos, prev_block_length) ==
    IF i = last_pos THEN M0
    ELSE LET M1 == M0[<<j - 1, i>>]
             M2 == M0[<<j - 1, i + prev_block_length>>]
         IN  IndexInner(arr, (<<j, i>> :> IndexLevelPick(arr, M1, M2)) @@ M0,
                        j, i + 1, last_pos, prev_block_length)

\* for(j = 2; j <= lowerlogn; j++) { ... }  run from j on
RECURSIVE IndexOuter(_, _, _, _)
IndexOuter(arr, M0, j, prev_block_length) ==
    LET n == Size(arr)
        lowerlogn == lower_log2(n)
        block_length == pow2(j)
        last_pos == n - block_length + 1
    IN  IF j > lowerlogn THEN M0
        ELSE IndexOuter(arr, IndexInner(arr, M0, j, 0, last_pos, prev_block_length),
                        j + 1, block_length)

index_preprocess_sparse_table(arr, M0) ==
    IF Size(arr) > 2 THEN IndexOuter(arr, IndexLevel1(arr, M0), 2, 2) ELSE M0

\* ------------------------------------------------ preprocess_sparse_table
\* M.push_back(*first <= *second ? first : second)
Level1Pick(arr, first, second) == IF arr[first] <= arr[second] THEN first ELSE second

\* for(auto second = std::next(first); second != last; ++first, ++second)
RECURSIVE Level1(_, _, _)
Level1(arr, T0, first) ==
    LET second == first + 1
    IN  IF second = Size(arr) THEN T0
        ELSE Level1(arr, push_back(T0, Level1Pick(arr, first, second)), first + 1)

\* M.push_back(*M2 < *M1 ? M2 : M1)
LevelPick(arr, M1, M2) == IF arr[M2] < arr[M1] THEN M2 ELSE M1

\* for(std::size_t i = 0; i != last_pos; i++) { ...; ++Mi; }  run from i on
RECURSIVE Inner(_, _, _, _, _, _)
Inner(arr, T0, i, last_pos, Mi, block_length_2) ==
    IF i = last_pos THEN T0
    ELSE LET M1 == T0[Mi]
             M2 == T0[Mi + block_length_2]
         IN  Inner(arr, push_back(T0, LevelPick(arr, M1, M2)), i + 1, last_pos,
                   Mi + 1, block_length_2)

\* for(char unsigned j = 2; j <= lowerlogn; j++) { ... }  run from j on
RECURSIVE Outer(_, _, _, _, _)
Outer(arr, T0, n, j, block_length_2) ==
    LET lowerlogn == lower_log2(n)
        block_length == 2 * block_length_2
        last_pos == n - block_length + 1
        Mi == Size(T0) - (n - block_length_2 + 1)
    IN  IF j > lowerlogn THEN T0
        ELSE Outer(arr, Inner(arr, T0, 0, last_pos, Mi, block_length_2), n,
                   j + 1, block_length)

\* first != last && next(first) != last && next(next(first)) != last
HasThree(arr) == Size(arr) # 0 /\ Size(arr) # 1 /\ Size(arr) # 2

\* preprocess_sparse_table writing begin() before it tests the range (a
\* faulty variant)
preprocess_sparse_table_WritesFirst(arr, T0) ==
    IF HasThree(arr)
    THEN LET T1 == Level1(arr, T0, 0)
             n == Size(T1) + 1
         IN  Outer(arr, T1, n, 2, 2)
    ELSE push_back(T0, 0)

preprocess_sparse_table(arr, T0) ==
    IF HasThree(arr)
    THEN LET T1 == Level1(arr, T0, 0)
             n == Size(T1) + 1
         IN  Outer(arr, T1, n, 2, 2)
    ELSE T0

\* ------------------------------------------------- translate_sparse_table
\* The operands are unsigned: every result is taken modulo 2^WordBits.
Wrap(x) == x % (2 ^ WordBits)

\* translate_sparse_table with the inner subtraction miscounted by one (a
\* faulty variant)
translate_sparse_table_OffByOne(i, j, n) ==
    IF j = 1 THEN i
    ELSE Wrap(Wrap(Wrap((j - 1) * n) - Wrap(pow2(j) - j)) + i)

\* j == 1 ? i : ((j - 1) * n) - (pow2(j) - j - 1) + i
translate_sparse_table(i, j, n) ==
    IF j = 1 THEN i
    ELSE Wrap(Wrap(Wrap((j - 1) * n) - Wrap(Wrap(pow2(j) - j) - 1)) + i)

\* Some subtraction of translate_sparse_table(i, j, n) has a minuend smaller
\* than its subtrahend (the unsigned result wraps around).
TranslateUnderflows(i, j, n) ==
    /\ j # 1
    /\ \/ pow2(j) < j
       \/ Wrap(pow2(j) - j) < 1
       \/ Wrap((j - 1) * n) < Wrap(Wrap(pow2(j) - j) - 1)

\* ----------------------------------------------------------- stray reads
\* A read of a table cell the builder never wrote, or of a cell past the end
\* of a vector, has no defined result.  mem is what the memory outside the
\* written cells happens to hold during a call: mem.stale is the content of
\* such a cell (a position, in range or not, or Crash when the read itself
\* kills the process) and mem.wild is what dereferencing a position outside
\* the array ends in.
Memory(n) ==
    {[stale |-> s, wild |-> 0] : s \in (0..(n - 1)) \cup {Crash}}
        \cup {[stale |-> s, wild |-> w] : s \in n..(n + 1), w \in (0..n) \cup {Crash}}

\* The memory a call depends on: nothing to choose when it reads no stray cell.
NoMemory == [stale |-> 0, wild |-> 0]
MemoryFor(n, readsStray) == IF readsStray THEN Memory(n) ELSE {NoMemory}

\* M[k][pos]: the cell's content if the builder wrote it, else stale.
ReadM(M0, k, pos, mem) == IF <<k, pos>> \in DOMAIN M0 THEN M0[<<k, pos>>] ELSE mem.stale

\* sparse_table[x]: the element if x < size(), else stale.
ReadT(T0, x, mem) == IF x \in DOMAIN T0 THEN T0[x] ELSE mem.stale

\* The smaller of arr[x] and arr[y], x winning ties:  arr[y] < arr[x] ? y : x
Smaller(arr, x, y, mem) ==
    IF x = Crash \/ y = Crash THEN Crash
    ELSE IF x \notin DOMAIN arr \/ y \notin DOMAIN arr THEN mem.wild
    ELSE IF arr[y] < arr[x] THEN y ELSE x

\* assert(cond) of <cassert>, in a build that keeps assertions (no NDEBUG):
\* the call aborts when cond is false.
AssertFails(cond) == ~cond

\* ----------------------------------------------- index_query_sparse_table
\* the position of the second cell:  i + (r - 2 * k)
IndexSecondPos(i, r, k) == i + (r - 2 * k)

index_query_sparse_table(i, j, arr, M0, mem) ==
    IF AssertFails(i <= j) THEN AssertFail
    ELSE IF i = j THEN i
    ELSE LET r == j - i + 1
             k == lower_log2(r)
             x == ReadM(M0, k, i, mem)
             y == ReadM(M0, k, IndexSecondPos(i, r, k), mem)
         IN  Smaller(arr, x, y, mem)

\* The cells index_query_sparse_table(i, j, A, M) reads from M.
IndexCells(i, j) ==
    IF i >= j THEN {}
    ELSE LET r == j - i + 1
             k == lower_log2(r)
         IN  {<<k, i>>, <<k, IndexSecondPos(i, r, k)>>}

\* ----------------------------------------------------- query_sparse_table
\* if (i == j) return sparse_table[i];
SingleElement(i, T0, mem) == ReadT(T0, i, mem)

query_sparse_table(i, j, n, arr, T0, mem) ==
    IF AssertFails(i <= j) \/ AssertFails(j < n) THEN AssertFail
    ELSE IF i = j THEN SingleElement(i, T0, mem)
    ELSE LET k == lower_log2(j - i + 1)
             x == translate_sparse_table(i, k, n)
             y == translate_sparse_table(j - pow2(k) + 1, k, n)
             Mx == ReadT(T0, x, mem)
             My == ReadT(T0, y, mem)
         IN  Smaller(arr, Mx, My, mem)

\* The cells query_sparse_table(i, j, n, sparse_table) reads from the table.
Cells(i, j, n) ==
    IF i > j \/ j >= n THEN {}
    ELSE IF i = j THEN {i}
    ELSE LET k == lower_log2(j - i + 1)
         IN  {translate_sparse_table(i, k, n),
              translate_sparse_table(j - pow2(k) + 1, k, n)}

\* ------------------------------------------------------------ rooted trees
\* A tree of nv vertices 0..nv-1 rooted at 0: parent[v] for v = 1..nv-1.
RECURSIVE ReachesRoot(_, _, _)
ReachesRoot(parent, v, fuel) ==
    IF v = 0 THEN TRUE
    ELSE IF fuel = 0 THEN FALSE
    ELSE ReachesRoot(parent, parent[v], fuel - 1)

TreesOf(nv) ==
    {[nv |-> nv, parent |-> p] :
        p \in {pp \in [1..(nv - 1) -> 0..(nv - 1)] :
                    \A v \in 1..(nv - 1) : ReachesRoot(pp, v, nv)}}

EmptyGraph == [nv |-> 0, parent |-> Empty]
Trees == {EmptyGraph} \cup UNION {TreesOf(nv) : nv \in 1..MaxV}

Vertices(t) == 0..(t.nv - 1)
Children(t, v) == {c \in 1..(t.nv - 1) : t.parent[c] = v}
SetMin(S) == CHOOSE x \in S : \A y \in S : x <= y

\* depth_first_search with the eulerian-path and vertex-depth visitors: the
\* vertex and its depth on entering a vertex and on every return to it from
\* a finished child; children are visited in the order of their edges
\* (rising vertex number).
RECURSIVE Tour(_, _, _)
RECURSIVE TourChildren(_, _, _, _)
Tour(t, v, d) == <<<<v, d>>>> \o TourChildren(t, v, d, Children(t, v))
TourChildren(t, v, d, todo) ==
    IF todo = {} THEN <<>>
    ELSE LET c == SetMin(todo)
         IN  Tour(t, c, d + 1) \o <<<<v, d>>>> \o TourChildren(t, v, d, todo \ {c})

EulerTour(t) == IF t.nv = 0 THEN <<>> ELSE Tour(t, 0, 0)

\* a 1-based sequence as a 0-based container
ToArray(seq) == [k \in 0..(Len(seq) - 1) |-> seq[k + 1]]

eulerian_path(t) == ToArray([k \in 1..Len(EulerTour(t)) |-> EulerTour(t)[k][1]])
vertex_depth(t) == ToArray([k \in 1..Len(EulerTour(t)) |-> EulerTour(t)[k][2]])

\* std::transform(begin(E), end(E), R, element_index()) into a map whose
\* insert does not replace: the first position of every vertex of E.
element_index(tour) ==
    [v \in {tour[k] : k \in DOMAIN tour} |->
        SetMin({k \in DOMAIN tour : tour[k] = v})]

\* --------------------------------------------------------- lca_preprocess
\* The source calls preprocess_sparse_table(L, M) with the container; the
\* builder takes a range, here [begin(L), end(L)).
lca_preprocess(t) ==
    LET tour == eulerian_path(t)
        depth == vertex_depth(t)
    IN  [E |-> tour, L |-> depth, R |-> element_index(tour),
         M |-> preprocess_sparse_table(depth, Empty)]

\* -------------------------------------------------------------- lca_query
\* SwapIfLess without the swap (a faulty variant)
SwapIfLess_NoSwap(i, j) == <<i, j>>

\* auto i = R[u], j = R[v]; if (j < i) std::swap(i, j);
SwapIfLess(i, j) == IF j < i THEN <<j, i>> ELSE <<i, j>>

\* return E[minimum];
TourAt(tour, minimum, mem) ==
    IF minimum < 0 THEN minimum
    ELSE IF minimum \in DOMAIN tour THEN tour[minimum]
    ELSE mem.wild

\* query_sparse_table is given L where it takes the size n of the input:
\* n is the number of elements of L.
lca_query(u, v, tour, depth, first, table, mem) ==
    LET ij == SwapIfLess(first[u], first[v])
        minimum == query_sparse_table(ij[1], ij[2], Size(depth), depth, table, mem)
    IN  TourAt(tour, minimum, mem)

\* The lowest common ancestor of u and v in t (the reference answer).
RECURSIVE Ancestors(_, _)
Ancestors(t, v) == IF v = 0 THEN {0} ELSE {v} \cup Ancestors(t, t.parent[v])
Depth(t, v) == Cardinality(Ancestors(t, v)) - 1
LowestCommonAncestor(t, u, v) ==
    CHOOSE a \in Ancestors(t, u) \cap Ancestors(t, v) :
        \A b \in Ancestors(t, u) \cap Ancestors(t, v) : Depth(t, b) <= Depth(t, a)

\* ------------------------------------------------- representative_element
\* One call in progress: fn is the overload called ("n": (first, n, result),
\* "last": (first, last, result)), first the position of the iterator, cnt
\* the index counter (i or n), out what was written through result, and
\* visited the <<position, counter>> of every *first evaluated so far.
NoRep == [fn |-> "none", pc |-> "idle", first |-> 0, cnt |-> 0, seen |-> {},
          out |-> Empty, visited |-> Empty]

\* the loop body reads *first with the counter at cnt
Visit(r) == [r EXCEPT !.visited = push_back(r.visited, <<r.first, r.cnt>>)]

\* if(seen.find(*first) == std::end(seen)) { *result++ = i; seen.insert(*first); }
RecordIfNew(r, value) ==
    IF value \in r.seen THEN r
    ELSE [r EXCEPT !.out = push_back(r.out, r.cnt), !.seen = r.seen \cup {value}]

\* one iteration of  for(N i = 0; i < n; ++i) { ...; ++first; }
StepN(r, arr, n) ==
    IF r.cnt < n
    THEN [RecordIfNew(Visit(r), arr[r.first]) EXCEPT !.first = r.first + 1, !.cnt = r.cnt + 1]
    ELSE [r EXCEPT !.pc = "done"]

\* one iteration of  for(N n = 0; first != last; ++first, ++n) { ...; ++first; }
\* value is what *first yields.
StepLast(r, value, last) ==
    IF r.first # last
    THEN [RecordIfNew(Visit(r), value) EXCEPT !.first = r.first + 2, !.cnt = r.cnt + 1]
    ELSE [r EXCEPT !.pc = "done"]

\* *first: the element, or anything at all once first has moved past last.
Deref(arr, first) == IF first \in DOMAIN arr THEN {arr[first]} ELSE Values \cup {Crash}

\* ================================================================ actions
\* A query does not change the array or the tables: q only records one
\* range [i, j] and what each of the two query functions returned for it.
\* a value no call produces: the function has not been called
NotCalled == AssertFail - 1
NoQuery == [i |-> 0, j |-> 0, index |-> NotCalled, flat |-> NotCalled]
NoLcaQuery == [u |-> 0, v |-> 0, mem |-> NoMemory, uv |-> NotCalled, vu |-> NotCalled]

NothingBuilt ==
    /\ M = Empty
    /\ T = Empty
    /\ builtM = FALSE
    /\ builtT = FALSE
    /\ q = NoQuery
    /\ E = Empty
    /\ L = Empty
    /\ R = Empty
    /\ LM = Empty
    /\ preprocessed = FALSE
    /\ lq = NoLcaQuery
    /\ rep = NoRep

\* an array, and no graph
InitRMQ == A \in Arrays /\ g = EmptyGraph /\ NothingBuilt

\* a rooted tree (or the graph of no vertices), and no array
InitLCA == A = Empty /\ g \in Trees /\ NothingBuilt

Init == InitRMQ \/ InitLCA

\* index_preprocess_sparse_table(A, M) on a table nothing was written to
IndexPreprocess ==
    /\ ~builtM
    /\ M' = index_preprocess_sparse_table(A, M)
    /\ builtM' = TRUE
    /\ UNCHANGED <<A, T, builtT, q, lcaVars, rep>>

\* preprocess_sparse_table(begin(A), end(A), T) on an empty vector
Preprocess ==
    /\ ~builtT
    /\ T' = preprocess_sparse_table(A, T)
    /\ builtT' = TRUE
    /\ UNCHANGED <<A, M, builtM, q, lcaVars, rep>>

\* The arguments a caller passes: every valid index and one past the end;
\* the second function queried is asked about the range of the first.
QueryArgs == IF q = NoQuery THEN (0..Size(A)) \X (0..Size(A)) ELSE {<<q.i, q.j>>}

\* index_query_sparse_table(i, j, A, M)
IndexQuery ==
    /\ builtM
    /\ q.index = NotCalled
    /\ \E a \in QueryArgs :
         \E mem \in MemoryFor(Size(A), ~(IndexCells(a[1], a[2]) \subseteq DOMAIN M)) :
            q' = [q EXCEPT !.i = a[1], !.j = a[2],
                           !.index = index_query_sparse_table(a[1], a[2], A, M, mem)]
    /\ UNCHANGED <<A, M, T, builtM, builtT, lcaVars, rep>>

\* query_sparse_table(i, j, A.size(), T)
Query ==
    /\ builtT
    /\ q.flat = NotCalled
    /\ \E a \in QueryArgs :
         \E mem \in MemoryFor(Size(A), ~(Cells(a[1], a[2], Size(A)) \subseteq DOMAIN T)) :
            q' = [q EXCEPT !.i = a[1], !.j = a[2],
                           !.flat = query_sparse_table(a[1], a[2], Size(A), A, T, mem)]
    /\ UNCHANGED <<A, M, T, builtM, builtT, lcaVars, rep>>

\* lca_preprocess(g, E, L, R, LM) on empty containers
LcaPreprocess ==
    /\ ~preprocessed
    /\ LET out == lca_preprocess(g)
       IN  /\ E' = out.E
           /\ L' = out.L
           /\ R' = out.R
           /\ LM' = out.M
    /\ preprocessed' = TRUE
    /\ UNCHANGED <<rmqVars, g, lq, rep>>

\* The cells lca_query(u, v, ...) reads from the table.
LcaCells(u, v) ==
    LET ij == SwapIfLess(R[u], R[v]) IN Cells(ij[1], ij[2], Size(L))

\* lca_query(u, v, E, L, R, LM) for two vertices of g
LcaQuery ==
    /\ preprocessed
    /\ lq.uv = NotCalled
    /\ \E u \in Vertices(g), v \in Vertices(g) :
         \E mem \in MemoryFor(Size(L), ~(LcaCells(u, v) \subseteq DOMAIN LM)) :
            lq' = [lq EXCEPT !.u = u, !.v = v, !.mem = mem,
                             !.uv = lca_query(u, v, E, L, R, LM, mem)]
    /\ UNCHANGED <<rmqVars, g, E, L, R, LM, preprocessed, rep>>

\* lca_query(v, u, E, L, R, LM): the same pair in the other order, the
\* memory being what it was for the first call
LcaQuerySwapped ==
    /\ lq.uv # NotCalled
    /\ lq.vu = NotCalled
    /\ lq' = [lq EXCEPT !.vu = lca_query(lq.v, lq.u, E, L, R, LM, lq.mem)]
    /\ UNCHANGED <<rmqVars, g, E, L, R, LM, preprocessed, rep>>

\* representative_element(begin(A), A.size(), result)
RepCallN ==
    /\ rep.pc = "idle"
    /\ rep' = [NoRep EXCEPT !.fn = "n", !.pc = "loop"]
    /\ UNCHANGED <<rmqVars, lcaVars>>

\* representative_element(begin(A), end(A), result)
RepCallLast ==
    /\ rep.pc = "idle"
    /\ rep' = [NoRep EXCEPT !.fn = "last", !.pc = "loop"]
    /\ UNCHANGED <<rmqVars, lcaVars>>

RepStepN ==
    /\ rep.pc = "loop"
    /\ rep.fn = "n"
    /\ rep' = StepN(rep, A, Size(A))
    /\ UNCHANGED <<rmqVars, lcaVars>>

\* An iterator that has skipped last is followed for MaxOverrun more steps.
RepStepLast ==
    /\ rep.pc = "loop"
    /\ rep.fn = "last"
    /\ rep.first <= Size(A) + MaxOverrun
    /\ \E value \in (IF rep.first = Size(A) THEN {0} ELSE Deref(A, rep.first)) :
         rep' = IF value = Crash THEN [rep EXCEPT !.pc = "crashed"]
                ELSE StepLast(rep, value, Size(A))
    /\ UNCHANGED <<rmqVars, lcaVars>>

NextRMQ == IndexPreprocess \/ Preprocess \/ IndexQuery \/ Query
NextBuild == IndexPreprocess \/ Preprocess \/ LcaPreprocess
NextLCA == LcaPreprocess \/ LcaQuery \/ LcaQuerySwapped
NextRep == RepCallN \/ RepCallLast \/ RepStepN \/ RepStepLast
Next == NextRMQ \/ NextLCA \/ NextRep

\* the sparse-table functions on an array
SpecRMQ == InitRMQ /\ [][NextRMQ]_vars
\* the three preprocessing functions, each on its input
SpecBuild == Init /\ [][NextBuild]_vars
\* lca_preprocess and lca_query on a tree
SpecLCA == InitLCA /\ [][NextLCA]_vars
\* representative_element on an array
SpecRep == InitRMQ /\ [][NextRep]_vars
Spec == Init /\ [][Next]_vars

\* ================================================================= claims
ValidRange == q.i <= q.j /\ q.j < Size(A)
IndexCalled == q.index # NotCalled
FlatCalled == q.flat # NotCalled
LcaCalled == lq.uv # NotCalled

\* C1: after index_preprocess_sparse_table(A, M), for every non-empty A
\* (n = 1 and n = 2 included) and every 0 <= i <= j < n,
\* index_query_sparse_table(i, j, A, M) returns the smallest index of [i, j]
\* at which A takes its minimum over [i, j], for every range length.
C1_IndexQueryLeftmostMin ==
    (builtM /\ IndexCalled /\ ValidRange) => q.index = LeftmostMin(A, q.i, q.j)

\* C2: on the structures lca_preprocess builds for a rooted tree,
\* lca_query(u, v, E, L, R, M) returns the lowest common ancestor of u and v,
\* for every pair of vertices (u = v included, as in lca(4,4) = 4).
C2_LcaQueryIsLowestCommonAncestor ==
    (preprocessed /\ LcaCalled) => lq.uv = LowestCommonAncestor(g, lq.u, lq.v)

\* C3: a query on the single-element range [i, i], i < n, returns i and reads
\* no cell of the table, for index_query_sparse_table and for
\* query_sparse_table alike.
C3_SingleElementReturnsItself ==
    (ValidRange /\ q.i = q.j) =>
        /\ (builtM /\ IndexCalled) => (q.index = q.i /\ IndexCells(q.i, q.j) = {})
        /\ (builtT /\ FlatCalled) => (q.flat = q.i /\ Cells(q.i, q.j, Size(A)) = {})

\* C4: lca_query(u, u, E, L, R, M) returns u for every vertex u of the tree.
C4_LcaQuerySameVertex ==
    (preprocessed /\ LcaCalled /\ lq.u = lq.v) => lq.uv = lq.u

\* C5: lca_query(u, v, E, L, R, M) and lca_query(v, u, E, L, R, M) return the
\* same result for every pair of vertices of the tree.
C5_LcaQuerySymmetric ==
    (preprocessed /\ LcaCalled /\ lq.vu # NotCalled) => lq.uv = lq.vu

\* C5 witness: both orders were queried for two vertices whose first tour
\* positions are in falling order (the swap was taken) and a vertex came back.
C5_Witness ==
    /\ preprocessed /\ LcaCalled /\ lq.vu # NotCalled
    /\ R[lq.v] < R[lq.u]
    /\ lq.uv \in Vertices(g)
    /\ lq.uv # lq.u /\ lq.uv # lq.v

\* The representative map of arr: for each value, its first position.
Range(arr) == {arr[k] : k \in DOMAIN arr}
FirstIndex(arr, v) == SetMin({k \in DOMAIN arr : arr[k] = v})

\* C6: when representative_element returns, its output holds exactly one
\* entry per distinct value of the input, the smallest index of that value;
\* for the (first, last, result) overload as for the (first, n, result) one.
C6_RepresentativeIsFirstIndex ==
    rep.pc = "done" =>
        /\ Size(rep.out) = Cardinality(Range(A))
        /\ \A v \in Range(A) : \E p \in DOMAIN rep.out : rep.out[p] = FirstIndex(A, v)

\* C7: for every valid range 0 <= i <= j < n the flat table queried by
\* query_sparse_table and the index table queried by
\* index_query_sparse_table name the same position of A.
C7_FlatAndIndexAgree ==
    (builtM /\ builtT /\ IndexCalled /\ FlatCalled /\ ValidRange) => q.index = q.flat

\* C8: a query called with i > j or with j >= n ends in a failed assertion
\* and returns nothing, for query_sparse_table and for
\* index_query_sparse_table.
C8_InvalidRangeAsserts ==
    ~ValidRange =>
        /\ IndexCalled => q.index = AssertFail
        /\ FlatCalled => q.flat = AssertFail

\* C9: preprocessing an empty input produces empty outputs:
\* index_preprocess_sparse_table and preprocess_sparse_table write nothing
\* for a 0-element array, and lca_preprocess leaves E, L, R and the table
\* empty for the graph of no vertices.
C9_EmptyInputEmptyOutput ==
    /\ (builtM /\ Size(A) = 0) => M = Empty
    /\ (builtT /\ Size(A) = 0) => T = Empty
    /\ (preprocessed /\ g.nv = 0) => (E = Empty /\ L = Empty /\ R = Empty /\ LM = Empty)

\* C9 witness: all three preprocessing functions have run on empty input.
C9_Witness ==
    builtM /\ builtT /\ preprocessed /\ Size(A) = 0 /\ g.nv = 0

\* The number of entries of level l of a table over n elements, and the
\* place of entry (j, i) in a table appended level by level.
LevelSize(n, l) == n - pow2(l) + 1
RECURSIVE LevelStart(_, _)
LevelStart(n, j) == IF j <= 1 THEN 0 ELSE LevelStart(n, j - 1) + LevelSize(n, j - 1)
Entries(n) ==
    {p \in (1..lower_log2(n)) \X (0..n) : p[2] <= n - pow2(p[1])}

\* C10: after a builder has run on an array of n >= 3 elements, the entry
\* for every level 1 <= j <= floor(log2 n) and position 0 <= i <= n - 2^j is
\* the leftmost minimum of A[i .. i + 2^j - 1], and nothing else is written;
\* for index_preprocess_sparse_table and for preprocess_sparse_table.
C10_TableEntriesAreLeftmostMinima ==
    Size(A) >= 3 =>
        /\ builtM =>
            /\ DOMAIN M = Entries(Size(A))
            /\ \A p \in Entries(Size(A)) :
                 M[p] = LeftmostMin(A, p[2], p[2] + pow2(p[1]) - 1)
        /\ builtT =>
            /\ DOMAIN T = 0..(LevelStart(Size(A), lower_log2(Size(A)) + 1) - 1)
            /\ \A p \in Entries(Size(A)) :
                 T[LevelStart(Size(A), p[1]) + p[2]]
                    = LeftmostMin(A, p[2], p[2] + pow2(p[1]) - 1)

\* C10 witness: both builders have run on an array of 8 elements (levels 1
\* to 3) whose minimum occurs more than once.
C10_Witness ==
    /\ builtM /\ builtT /\ Size(A) = 8
    /\ Cardinality({k \in DOMAIN A : A[k] = A[LeftmostMin(A, 0, 7)]}) > 1
    /\ LeftmostMin(A, 0, 7) > 0

\* C11: for every query with i < j < n, r = j - i + 1 and k = floor(log2 r),
\* the two cells the query reads are the level-k entries at positions i and
\* j - 2^k + 1; both positions lie in [0, n - 2^k], both windows lie inside
\* [i, j] and together they cover [i, j]; for index_query_sparse_table and
\* for query_sparse_table.
C11_QueryReadsTheTwoCoveringWindows ==
    (ValidRange /\ q.i < q.j) =>
        LET n == Size(A)
            k == lower_log2(q.j - q.i + 1)
            second == q.j - pow2(k) + 1
        IN  /\ pow2(k) <= q.j - q.i + 1 /\ q.j - q.i + 1 < pow2(k + 1)
            /\ (builtM /\ IndexCalled) =>
                    IndexCells(q.i, q.j) = {<<k, q.i>>, <<k, second>>}
            /\ (builtT /\ FlatCalled) =>
                    Cells(q.i, q.j, n) = {LevelStart(n, k) + q.i, LevelStart(n, k) + second}
            /\ {q.i, second} \subseteq 0..(n - pow2(k))
            /\ q.i + pow2(k) - 1 <= q.j /\ q.i <= second
            /\ (q.i..(q.i + pow2(k) - 1)) \cup (second..q.j) = q.i..q.j

\* C12: for n >= 3, 1 <= j <= floor(log2 n) and 0 <= i <= n - 2^j,
\* translate_sparse_table(i, j, n) is the number of entries
\* preprocess_sparse_table appended for levels 1..j-1 plus i, the place where
\* the builder stored the entry of (j, i); it is i for j = 1 and
\* (j-1)*n - (2^j - j - 1) + i otherwise, no subtraction underflows, and it
\* is smaller than the size of the table.
C12_TranslateIsBuilderOffset ==
    (builtT /\ Size(A) >= 3) =>
        \A p \in Entries(Size(A)) :
            LET n == Size(A)
                j == p[1]
                i == p[2]
                x == translate_sparse_table(i, j, n)
            IN  /\ x = LevelStart(n, j) + i
                /\ x = (IF j = 1 THEN i ELSE (j - 1) * n - (pow2(j) - j - 1) + i)
                /\ ~TranslateUnderflows(i, j, n)
                /\ x < Size(T)
                /\ T[x] = LeftmostMin(A, i, i + pow2(j) - 1)

\* C12 witness: preprocess_sparse_table has run on 8 elements (levels 1 to
\* 3) whose only minimum is the last one: the last offset is the last cell
\* of T, and the entries found at the offsets of (3, 0), (2, 4) and (2, 3)
\* are those of their windows.
C12_Witness ==
    /\ builtT /\ Size(A) = 8
    /\ translate_sparse_table(0, 3, 8) = Size(T) - 1
    /\ T[translate_sparse_table(0, 3, 8)] = 7
    /\ T[translate_sparse_table(4, 2, 8)] = 7
    /\ T[translate_sparse_table(3, 2, 8)] = 3

\* C13: representative_element(first, last, result) terminates on every
\* finite range, and until then evaluates *first at every position
\* k = 0 .. n-1 once and in order, with its counter equal to k at position k,
\* and never moves the iterator past last.
C13_SinglePassInOrder ==
    rep.fn = "last" =>
        /\ rep.pc # "crashed"
        /\ rep.first <= Size(A)
        /\ \A k \in DOMAIN rep.visited : rep.visited[k] = <<k, k>>
        /\ rep.pc = "done" => Size(rep.visited) = Size(A)

====
